---- MODULE Spec2Model ----
(***************************************************************************)
(* State-machine model of BreastCancerDataModule                           *)
(* (src/src/data/bcc_datamodule.py): the four cached dataset fields, the    *)
(* staged setup(stage) handler and the three loader getters.               *)
(*                                                                         *)
(* The dataset source adapter (DeepLakeDataset) is an imported component:  *)
(* each invocation either raises or returns a fresh handle of some length. *)
(***************************************************************************)
EXTENDS Integers, Sequences, FiniteSets, TLC

\* ---------------------------------------------------------------- bounds
MaxCalls == 3      \* setup calls explored per behaviour
MaxLen == 1        \* largest length the adapter reports
MaxBatch == 2      \* largest batch_size given to the constructor
MaxWorkers == 1    \* largest num_workers given to the constructor
MaxN == 3          \* largest partition a loader is iterated over
MaxIterWorkers == 2 \* largest num_workers of an iterated loader

\* ------------------------------------------------------- values and inputs
\* Python's None as the value of a dataset field (no handle stored).
None == [id |-> 0, len |-> -1, src |-> "None", tf |-> "None"]

\* setup(stage=None)
NoneStage == "None"

\* Stage arguments tried: the six of the spec's enumeration, and one outside.
Stages == {"train", "fit", NoneStage, "validation", "test", "predict", "bogus"}

\* What one adapter invocation can do: raise, or return a handle whose length
\* is the number given.
AdapterRaises == -1
AdapterResults == {AdapterRaises} \cup (0..MaxLen)

\* setup has three assignment sites on any one path (train, validation, test).
MaxOpensPerCall == Cardinality({"train", "validation", "test"})

\* Constructor arguments stored on the object (lines 76-78).
ds_train == "train_dir"
ds_val == "val_dir"
ds_test == "test_dir"

\* The three pipeline objects built by the constructor (lines 51-74),
\* referred to by the attribute that holds them.
train_transform == "train_transform"
val_transform == "val_transform"
test_transform == "test_transform"

VARIABLES
    hparams,       \* batch_size, num_workers, pin_memory (save_hyperparameters)
    data_train,    \* self.data_train
    data_val,      \* self.data_val
    data_test,     \* self.data_test
    data_predict,  \* self.data_predict (attribute absent until first assigned)
    nopen,         \* handles returned by the adapter so far (object identity)
    ncalls,        \* setup calls made so far
    op,            \* the operation that produced this state
    stage,         \* argument of the last setup call
    outcome,       \* how the last operation ended (exception, failing role)
    pre,           \* dataset fields when the last setup call started
    log,           \* adapter invocations of the last setup call, in order
    loader,        \* what the last operation returned, if a loader getter
    requested,     \* the stage arguments of all setup calls so far
    clean,         \* every adapter invocation so far returned a non-empty handle
    input_size,    \* the constructor's input_size argument
    it,            \* the loader iterator being consumed, if any
    prev           \* the last iteration that ran to its end

vars == <<hparams, data_train, data_val, data_test, data_predict, nopen,
          ncalls, op, stage, outcome, pre, log, loader, requested, clean,
          input_size, it, prev>>

Roles == {"train", "validation", "test", "predict"}

\* The dataset fields as one record, indexed by role.
Fields == [train |-> data_train, validation |-> data_val,
           test |-> data_test, predict |-> data_predict]

NoLoader == [dataset |-> None, batch_size |-> 0, num_workers |-> 0,
             pin_memory |-> FALSE, shuffle |-> FALSE]

\* No iterator exists.
NoIter == [active |-> FALSE, loader |-> NoLoader, batches |-> <<>>,
           queues |-> <<>>, sent |-> 0, results |-> <<>>, reads |-> <<>>,
           out |-> <<>>]

\* No iteration has run to its end yet.
NoPrev == [ds |-> 0, shuffle |-> FALSE, order |-> <<>>]

\* input_size: Tuple[int, int] = [600, 500]
DefaultInputSize == <<600, 500>>

\* Values of input_size tried.
InputSizes == {DefaultInputSize, <<256, 256>>}

\* ------------------------------------------------- the transform pipelines
\* One step of a transforms.Compose: the transform's name and arguments.
Step(name, args) == [name |-> name, args |-> args]

\* TestPipeline with the resize target taken from input_size.
TestPipeline_UsesInputSize(size) ==
    << Step("ToPILImage", <<>>),
       Step("Grayscale", <<1>>),
       Step("Resize", size),
       Step("ToTensor", <<>>),
       Step("Normalize", <<0, 1>>) >>

\* lines 51-58: the content of self.train_transform
TrainPipeline(size) ==
    << Step("ToPILImage", <<>>),
       Step("Grayscale", <<1>>),
       Step("Resize", <<256, 256>>),
       Step("RandomRotation", <<20>>),
       Step("ToTensor", <<>>),
       Step("Normalize", <<0, 1>>) >>

\* lines 60-66: the content of self.val_transform
ValPipeline(size) ==
    << Step("ToPILImage", <<>>),
       Step("Grayscale", <<1>>),
       Step("Resize", <<256, 256>>),
       Step("ToTensor", <<>>),
       Step("Normalize", <<0, 1>>) >>

\* lines 68-74: the content of self.test_transform
TestPipeline(size) ==
    << Step("ToPILImage", <<>>),
       Step("Grayscale", <<1>>),
       Step("Resize", <<256, 256>>),
       Step("ToTensor", <<>>),
       Step("Normalize", <<0, 1>>) >>

\* The steps of the pipeline object a handle was opened with, for a module
\* constructed with input_size = size.
Steps(tf, size) ==
    CASE tf = train_transform -> TrainPipeline(size)
      [] tf = val_transform -> ValPipeline(size)
      [] tf = test_transform -> TestPipeline(size)

\* ------------------------------------------------------------ the adapter
\* DeepLakeDataset(data_dir=src, transform=tf) when it returns: a new object
\* of the reported length that remembers what it was opened with.
DeepLakeDataset(src, tf, n, newid) ==
    [id |-> newid, len |-> n, src |-> src, tf |-> tf]

\* Resolve with the adapter's exception caught instead of propagated.
Resolve_SwallowAdapterError(s, role, src, tf, rs) ==
    LET r == rs[Len(s.log) + 1]
        call == [role |-> role, src |-> src, tf |-> tf, res |-> r]
    IN  IF r = AdapterRaises
        THEN [s EXCEPT !.log = Append(s.log, call)]
        ELSE [s EXCEPT !.f[role] = DeepLakeDataset(src, tf, r, s.nopen + 1),
                       !.nopen = s.nopen + 1,
                       !.log = Append(s.log, call),
                       !.exc = IF r = 0 THEN "ValueError" ELSE "none",
                       !.errRole = IF r = 0 THEN role ELSE "none"]

\* One "self.<field> = DeepLakeDataset(...); if len(...) == 0: raise" block
\* of setup, run on the running state s of the call.  rs is what the adapter
\* does at its successive invocations during this call; this is the next one.
\* If the adapter raises, nothing is assigned; otherwise the handle is stored
\* in the field FIRST and its length is tested afterwards.
Resolve(s, role, src, tf, rs) ==
    LET r == rs[Len(s.log) + 1]
        call == [role |-> role, src |-> src, tf |-> tf, res |-> r]
    IN  IF r = AdapterRaises
        THEN [s EXCEPT !.exc = "AdapterError", !.errRole = role,
                       !.log = Append(s.log, call)]
        ELSE [s EXCEPT !.f[role] = DeepLakeDataset(src, tf, r, s.nopen + 1),
                       !.nopen = s.nopen + 1,
                       !.log = Append(s.log, call),
                       !.exc = IF r = 0 THEN "ValueError" ELSE "none",
                       !.errRole = IF r = 0 THEN role ELSE "none"]

\* ------------------------------------------------------------------ setup
\* TrainStep taken only while validation is unresolved as well.
TrainStep_OnlyBeforeVal(s, st, rs) ==
    IF st \in {"train", "fit", NoneStage} /\ s.f.train = None
       /\ s.f.validation = None
    THEN Resolve(s, "train", ds_train, train_transform, rs)
    ELSE s

\* lines 91-97
TrainStep(s, st, rs) ==
    IF st \in {"train", "fit", NoneStage} /\ s.f.train = None
    THEN Resolve(s, "train", ds_train, train_transform, rs)
    ELSE s

\* lines 100-106
ValStep(s, rs) ==
    IF s.f.validation = None
    THEN Resolve(s, "validation", ds_val, val_transform, rs)
    ELSE s

\* lines 107-113
TestStep(s, rs) ==
    IF s.f.test = None
    THEN Resolve(s, "test", ds_test, test_transform, rs)
    ELSE s

\* ValTestStep with the test block (lines 107-113) left out.
ValTestStep_NoTest(s, st, rs) ==
    IF st \in {"validation", "fit", NoneStage}
    THEN ValStep(s, rs)
    ELSE s

\* ValTestStep going on to the test block after the validation block failed.
ValTestStep_ContinueAfterError(s, st, rs) ==
    IF st \in {"validation", "fit", NoneStage}
    THEN TestStep(ValStep(s, rs), rs)
    ELSE s

\* ValTestStep with the test block placed before the validation block.
ValTestStep_TestFirst(s, st, rs) ==
    IF st \in {"validation", "fit", NoneStage}
    THEN LET a == TestStep(s, rs)
         IN  IF a.exc = "none" THEN ValStep(a, rs) ELSE a
    ELSE s

\* lines 99-113
ValTestStep(s, st, rs) ==
    IF st \in {"validation", "fit", NoneStage}
    THEN LET a == ValStep(s, rs)
         IN  IF a.exc = "none" THEN TestStep(a, rs) ELSE a
    ELSE s

\* PredictStep with the test on line 116 applied to data_predict instead.
PredictStep_OwnGuard(s, st, rs) ==
    IF st = "predict" /\ s.f.predict = None
    THEN Resolve(s, "predict", ds_test, test_transform, rs)
    ELSE s

\* lines 115-122
PredictStep(s, st, rs) ==
    IF st = "predict" /\ s.f.test = None
    THEN Resolve(s, "predict", ds_test, test_transform, rs)
    ELSE s

\* The whole body of setup: the three top-level ifs in order, a raise ending
\* the call.  rs is the adapter's behaviour at its 1st, 2nd, 3rd invocation
\* of the call (a call makes at most three).
SetupResult(f, n, st, rs) ==
    LET s0 == [f |-> f, nopen |-> n, exc |-> "none", errRole |-> "none",
               log |-> <<>>]
        s1 == TrainStep(s0, st, rs)
        s2 == IF s1.exc = "none" THEN ValTestStep(s1, st, rs) ELSE s1
        s3 == IF s2.exc = "none" THEN PredictStep(s2, st, rs) ELSE s2
    IN  s3

\* rs lists the adapter's behaviour for the invocations the call makes; the
\* entries past the last invocation are never consulted and are fixed.
setup(st, rs) ==
    /\ ncalls < MaxCalls
    /\ LET s == SetupResult(Fields, nopen, st, rs)
       IN  /\ \A i \in 1..MaxOpensPerCall :
                  i > Len(s.log) => rs[i] = AdapterRaises
           /\ data_train' = s.f.train
           /\ data_val' = s.f.validation
           /\ data_test' = s.f.test
           /\ data_predict' = s.f.predict
           /\ nopen' = s.nopen
           /\ outcome' = [exc |-> s.exc, role |-> s.errRole]
           /\ log' = s.log
           /\ clean' = (clean /\ \A k \in 1..Len(s.log) : s.log[k].res > 0)
    /\ requested' = requested \cup {st}
    /\ pre' = Fields
    /\ stage' = st
    /\ ncalls' = ncalls + 1
    /\ op' = "setup"
    /\ loader' = NoLoader
    /\ UNCHANGED <<hparams, input_size, it, prev>>

\* ---------------------------------------------------------- loader getters
\* The getters hand the field to DataLoader as it is, with no test of their
\* own.  The only thing that can stop the construction is the library: with
\* shuffle=True DataLoader builds a RandomSampler, whose constructor takes
\* len(dataset) and refuses a dataset that is None (TypeError) or empty
\* (ValueError); with shuffle=False the SequentialSampler only stores the
\* dataset, so None and empty datasets go through.
SamplerRejects(dataset, shuffle) ==
    shuffle /\ (dataset = None \/ dataset.len = 0)

\* DataLoader with the shuffle argument left at the library's default.
DataLoader_NeverShuffle(dataset, shuffle) ==
    [dataset |-> dataset, batch_size |-> hparams.batch_size,
     num_workers |-> hparams.num_workers, pin_memory |-> hparams.pin_memory,
     shuffle |-> FALSE]

\* DataLoader with the batch_size argument left at the library's default.
DataLoader_DefaultBatch(dataset, shuffle) ==
    [dataset |-> dataset, batch_size |-> 1,
     num_workers |-> hparams.num_workers, pin_memory |-> hparams.pin_memory,
     shuffle |-> shuffle]

\* DataLoader with shuffle=True passed by every getter.
DataLoader_AlwaysShuffle(dataset, shuffle) ==
    [dataset |-> dataset, batch_size |-> hparams.batch_size,
     num_workers |-> hparams.num_workers, pin_memory |-> hparams.pin_memory,
     shuffle |-> TRUE]

\* DataLoader(dataset=..., batch_size=self.hparams.batch_size,
\* num_workers=self.hparams.num_workers, pin_memory=self.hparams.pin_memory,
\* shuffle=...)
DataLoader(dataset, shuffle) ==
    [dataset |-> dataset, batch_size |-> hparams.batch_size,
     num_workers |-> hparams.num_workers, pin_memory |-> hparams.pin_memory,
     shuffle |-> shuffle]

\* What a getter's "return DataLoader(...)" yields: the loader, or the
\* sampler's error.
GetterResult(dataset, shuffle) ==
    IF SamplerRejects(dataset, shuffle)
    THEN [loader |-> NoLoader,
          outcome |-> [exc |-> "SamplerError", role |-> "none"]]
    ELSE [loader |-> DataLoader(dataset, shuffle),
          outcome |-> [exc |-> "none", role |-> "none"]]

train_dataloader ==
    /\ loader' = GetterResult(data_train, TRUE).loader
    /\ outcome' = GetterResult(data_train, TRUE).outcome
    /\ op' = "train_dataloader"
    /\ UNCHANGED <<hparams, data_train, data_val, data_test, data_predict,
                   nopen, ncalls, stage, pre, log, requested, clean,
                   input_size, it, prev>>

val_dataloader ==
    /\ loader' = GetterResult(data_val, FALSE).loader
    /\ outcome' = GetterResult(data_val, FALSE).outcome
    /\ op' = "val_dataloader"
    /\ UNCHANGED <<hparams, data_train, data_val, data_test, data_predict,
                   nopen, ncalls, stage, pre, log, requested, clean,
                   input_size, it, prev>>

test_dataloader ==
    /\ loader' = GetterResult(data_test, FALSE).loader
    /\ outcome' = GetterResult(data_test, FALSE).outcome
    /\ op' = "test_dataloader"
    /\ UNCHANGED <<hparams, data_train, data_val, data_test, data_predict,
                   nopen, ncalls, stage, pre, log, requested, clean,
                   input_size, it, prev>>

\* ------------------------------------------------------- loader iteration
\* What happens when a loader returned by a getter is iterated is decided by
\* the DataLoader the getters construct, not by code of the module itself:
\* a sampler fixes the order of the indices, a batch sampler cuts it into
\* batches (drop_last is not passed, so the short last batch is kept), and
\* either the consumer's process (num_workers = 0) or the reader workers
\* fetch dataset[i] for the indices of one batch at a time.

\* All orders of the indices 0..n-1.
Perms(n) ==
    {p \in [1..n -> 0..(n - 1)] :
        \A i, j \in 1..n : i # j => p[i] # p[j]}

\* The insertion order 0, 1, ..., n-1.
InsertionOrder(n) == [k \in 1..n |-> k - 1]

\* The orders the loader's sampler can produce for one iteration:
\* shuffle=True draws a fresh random permutation, shuffle=False walks
\* range(len(dataset)).
SamplerOrders(ld) ==
    IF ld.shuffle
    THEN Perms(ld.dataset.len)
    ELSE {InsertionOrder(ld.dataset.len)}

\* The batch sampler: fill a batch with the next indices until it has b of
\* them, emit it, start a new one; at the end emit what is left, if any.
RECURSIVE BatchSampler(_, _)
BatchSampler(order, b) ==
    IF order = <<>> THEN <<>>
    ELSE IF Len(order) <= b THEN <<order>>
    ELSE <<SubSeq(order, 1, b)>> \o
         BatchSampler(SubSeq(order, b + 1, Len(order)), b)

\* The concatenation of a sequence of batches.
RECURSIVE Flatten(_)
Flatten(bs) == IF bs = <<>> THEN <<>> ELSE Head(bs) \o Flatten(Tail(bs))

\* Targets with every batch handed to every worker.
Targets_Broadcast(k, w) == 1..w

\* The workers whose index queue receives batch number k out of w workers:
\* the batches go round the workers in turn.
Targets(k, w) == {((k - 1) % w) + 1}

\* iter(loader): the sampler's order is drawn and cut into batches; every
\* worker starts with an empty index queue.  Over a dataset that is None the
\* sampler's len() raises and there is no iterator.
iter_start ==
    /\ loader # NoLoader
    /\ IF loader.dataset = None
       THEN /\ it' = NoIter
            /\ outcome' = [exc |-> "TypeError", role |-> "none"]
       ELSE /\ \E order \in SamplerOrders(loader) :
                 LET bs == BatchSampler(order, loader.batch_size)
                 IN  it' = [active |-> TRUE, loader |-> loader,
                            batches |-> bs,
                            queues |-> [w \in 1..loader.num_workers |-> <<>>],
                            sent |-> 0,
                            results |-> [k \in 1..Len(bs) |-> <<>>],
                            reads |-> [w \in 1..loader.num_workers |-> <<>>],
                            out |-> <<>>]
            /\ outcome' = [exc |-> "none", role |-> "none"]
    /\ op' = "iter"
    /\ UNCHANGED <<hparams, data_train, data_val, data_test, data_predict,
                   nopen, ncalls, stage, pre, log, loader, requested, clean,
                   input_size, prev>>

\* The consumer's process puts the indices of the next batch on the index
\* queue of the worker whose turn it is.  (The library keeps a bounded number
\* of batches in flight; here a batch may be handed out at any time, which
\* allows every schedule the library allows.)
dispatch ==
    /\ it.active
    /\ it.loader.num_workers >= 1
    /\ it.sent < Len(it.batches)
    /\ LET k == it.sent + 1
           tg == Targets(k, it.loader.num_workers)
       IN  it' = [it EXCEPT
                    !.sent = k,
                    !.queues = [w \in 1..it.loader.num_workers |->
                                   IF w \in tg THEN Append(it.queues[w], k)
                                   ELSE it.queues[w]]]
    /\ op' = "dispatch"
    /\ UNCHANGED <<hparams, data_train, data_val, data_test, data_predict,
                   nopen, ncalls, stage, outcome, pre, log, loader, requested,
                   clean, input_size, prev>>

\* Worker w takes the oldest batch from its index queue, reads dataset[i] for
\* each of its indices and hands the batch back.  It reads the partition and
\* writes none of the module's fields.
worker_fetch(w) ==
    /\ it.active
    /\ w \in 1..it.loader.num_workers
    /\ it.queues[w] # <<>>
    /\ LET k == Head(it.queues[w])
       IN  it' = [it EXCEPT
                    !.queues[w] = Tail(it.queues[w]),
                    !.reads[w] = it.reads[w] \o it.batches[k],
                    !.results[k] = it.batches[k]]
    /\ op' = "worker_fetch"
    /\ UNCHANGED <<hparams, data_train, data_val, data_test, data_predict,
                   nopen, ncalls, stage, outcome, pre, log, loader, requested,
                   clean, input_size, prev>>

\* next(iterator) when a batch is delivered: with num_workers = 0 the
\* consumer's process fetches the next batch itself; with workers it takes
\* the result of the next batch in order once a worker has handed it back.
next_batch ==
    /\ it.active
    /\ Len(it.out) < Len(it.batches)
    /\ LET k == Len(it.out) + 1
       IN  IF it.loader.num_workers = 0
           THEN it' = [it EXCEPT !.out = Append(it.out, it.batches[k])]
           ELSE /\ it.results[k] # <<>>
                /\ it' = [it EXCEPT !.out = Append(it.out, it.results[k])]
    /\ op' = "next_batch"
    /\ UNCHANGED <<hparams, data_train, data_val, data_test, data_predict,
                   nopen, ncalls, stage, outcome, pre, log, loader, requested,
                   clean, input_size, prev>>

\* next(iterator) after the last batch: StopIteration, the iteration is over.
iter_stop ==
    /\ it.active
    /\ Len(it.out) = Len(it.batches)
    /\ prev' = [ds |-> it.loader.dataset.id, shuffle |-> it.loader.shuffle,
                order |-> Flatten(it.out)]
    /\ it' = NoIter
    /\ op' = "iter_stop"
    /\ UNCHANGED <<hparams, data_train, data_val, data_test, data_predict,
                   nopen, ncalls, stage, outcome, pre, log, loader, requested,
                   clean, input_size>>

\* ------------------------------------------------------------ specification
Init ==
    /\ hparams \in [batch_size : 1..MaxBatch, num_workers : 0..MaxWorkers,
                    pin_memory : BOOLEAN]
    /\ data_train = None
    /\ data_val = None
    /\ data_test = None
    /\ data_predict = None
    /\ nopen = 0
    /\ ncalls = 0
    /\ op = "init"
    /\ stage = NoneStage
    /\ outcome = [exc |-> "none", role |-> "none"]
    /\ pre = [train |-> None, validation |-> None, test |-> None,
              predict |-> None]
    /\ log = <<>>
    /\ loader = NoLoader
    /\ requested = {}
    /\ clean = TRUE
    /\ input_size = DefaultInputSize
    /\ it = NoIter
    /\ prev = NoPrev

Next ==
    \/ \E st \in Stages, rs \in [1..MaxOpensPerCall -> AdapterResults] :
          setup(st, rs)
    \/ train_dataloader
    \/ val_dataloader
    \/ test_dataloader

Spec == Init /\ [][Next]_vars

\* ------------------------------------------- specification of loader use
\* Stages whose setup call resolves something on a fresh module.
IterStages == {"train", "validation", "fit", "predict"}

\* A module constructed with some configuration, after one setup call in
\* which the adapter returned handles of n >= 1 samples.
InitIter ==
    /\ hparams \in [batch_size : 1..MaxBatch, num_workers : 0..MaxIterWorkers,
                    pin_memory : {FALSE}]
    /\ input_size \in InputSizes
    /\ \E st \in IterStages, n \in 1..MaxN :
           LET fresh == [train |-> None, validation |-> None, test |-> None,
                         predict |-> None]
               s == SetupResult(fresh, 0, st, [k \in 1..MaxOpensPerCall |-> n])
           IN  /\ data_train = s.f.train
               /\ data_val = s.f.validation
               /\ data_test = s.f.test
               /\ data_predict = s.f.predict
               /\ nopen = s.nopen
               /\ outcome = [exc |-> s.exc, role |-> s.errRole]
               /\ log = s.log
               /\ pre = fresh
               /\ stage = st
               /\ requested = {st}
    /\ clean = TRUE
    /\ ncalls = 1
    /\ op = "setup"
    /\ loader = NoLoader
    /\ it = NoIter
    /\ prev = NoPrev

\* The consumer runs an iteration to its end before it asks for another
\* loader or starts the next iteration.
NextIter ==
    \/ ~it.active /\ train_dataloader
    \/ ~it.active /\ val_dataloader
    \/ ~it.active /\ test_dataloader
    \/ ~it.active /\ iter_start
    \/ dispatch
    \/ \E w \in 1..MaxIterWorkers : worker_fetch(w)
    \/ next_batch
    \/ iter_stop

SpecIter == InitIter /\ [][NextIter]_vars

\* ------------------------------------------------------- shared vocabulary
\* The last operation was a setup call.
AfterSetup == op = "setup"

\* The last operation was a loader getter, and it returned a loader.
AfterGetter ==
    /\ op \in {"train_dataloader", "val_dataloader", "test_dataloader"}
    /\ outcome.exc = "none"

\* Roles for which the last setup call invoked the adapter.
Invoked == {log[i].role : i \in 1..Len(log)}

\* Roles whose field holds a handle.
Held(f) == {ro \in Roles : f[ro] # None}

TypeOK ==
    /\ nopen \in 0..(MaxOpensPerCall * MaxCalls)
    /\ ncalls \in 0..MaxCalls
    /\ stage \in Stages
    /\ \A ro \in Roles : Fields[ro] = None \/ Fields[ro].id \in 1..nopen

\* The adapter returned a non-empty handle at every invocation of the last
\* setup call.
AdapterNonEmpty == \A i \in 1..Len(log) : log[i].res > 0

\* No field held a handle when the last setup call started.
FreshStart == Held(pre) = {}

\* The source reference and pipeline each role is to be opened with.
SourceOf == [train |-> ds_train, validation |-> ds_val, test |-> ds_test,
             predict |-> ds_test]
PipelineOf == [train |-> train_transform, validation |-> val_transform,
               test |-> test_transform, predict |-> test_transform]

\* Every handle stored by the last setup call was opened with its role's
\* source reference and pipeline.
OpenedAsMapped ==
    \A ro \in Roles :
        (Fields[ro] # None /\ Fields[ro] # pre[ro]) =>
            /\ Fields[ro].src = SourceOf[ro]
            /\ Fields[ro].tf = PipelineOf[ro]

\* The stage identifiers the spec enumerates.
EnumeratedStages == {"train", "fit", "validation", "test", "predict", NoneStage}

\* The spec's stage -> required-partitions table (section 4.1), for a call
\* that starts with the fields f.
Required(st, f) ==
    (IF st \in {"train", "fit", NoneStage} THEN {"train"} ELSE {}) \cup
    (IF st \in {"validation", "fit", NoneStage}
        THEN {"validation", "test"} ELSE {}) \cup
    (IF st = "predict" /\ f.test = None THEN {"predict"} ELSE {})

\* --------------------------------------------------------------------- C1
\* C1: once a role holds a handle, no later setup call invokes the adapter
\* for that role, and the stored handle is neither replaced nor cleared.
C1_SetupIdempotent ==
    AfterSetup =>
        \A ro \in Roles :
            pre[ro] # None => (ro \notin Invoked /\ Fields[ro] = pre[ro])

\* The same statement for the three roles whose guard tests their own field.
C1_IdempotentTrainValTest ==
    AfterSetup =>
        \A ro \in Roles \ {"predict"} :
            pre[ro] # None => (ro \notin Invoked /\ Fields[ro] = pre[ro])

\* --------------------------------------------------------------------- C2
\* C2: with the adapter returning non-empty handles, from a state with nothing
\* resolved setup('train') resolves exactly {train}, setup('validation')
\* exactly {validation, test}, setup(None) and setup('fit') exactly
\* {train, validation, test}; setup('predict') resolves predict, opened with
\* the test source and the test pipeline, iff test is unresolved, and
\* resolves nothing else.
C2_StageScoping ==
    (AfterSetup /\ AdapterNonEmpty) =>
        /\ (FreshStart /\ stage = "train") => Held(Fields) = {"train"}
        /\ (FreshStart /\ stage = "validation") =>
               Held(Fields) = {"validation", "test"}
        /\ (FreshStart /\ stage \in {NoneStage, "fit"}) =>
               Held(Fields) = {"train", "validation", "test"}
        /\ FreshStart => Invoked = Held(Fields)
        /\ stage = "predict" =>
               /\ (pre.test = None) <=> (Invoked = {"predict"})
               /\ (pre.test = None) <=>
                      (Fields.predict # None /\ Fields.predict # pre.predict)
               /\ Invoked \subseteq {"predict"}
               /\ \A ro \in Roles \ {"predict"} : Fields[ro] = pre[ro]
        /\ OpenedAsMapped

C2_Witness ==
    /\ AfterSetup /\ AdapterNonEmpty /\ FreshStart
    /\ stage = "validation"
    /\ Held(Fields) = {"validation", "test"}

C2_WitnessPredict ==
    /\ AfterSetup /\ AdapterNonEmpty
    /\ stage = "predict" /\ pre.test = None
    /\ Fields.predict.src = ds_test /\ Fields.predict.tf = test_transform

\* --------------------------------------------------------------------- C3
\* C3: an adapter handle of length 0 makes setup raise the empty-partition
\* error for that role, and from then on no loader getter returns a loader
\* over the empty handle.
C3_EmptinessGate ==
    /\ AfterSetup =>
           \A i \in 1..Len(log) :
               log[i].res = 0 =>
                   outcome = [exc |-> "ValueError", role |-> log[i].role]
    /\ AfterGetter => loader.dataset.len # 0

\* --------------------------------------------------------------------- C4
\* C4: every field that holds a handle holds one of length > 0.
C4_NonEmptyInvariant ==
    \A ro \in Roles : Fields[ro] # None => Fields[ro].len > 0

\* --------------------------------------------------------------------- C5
\* C5: whenever setup returns without raising, every partition the requested
\* stage requires is resolved with length > 0.
C5_NeverSilentlyEmpty ==
    (AfterSetup /\ outcome.exc = "none") =>
        \A ro \in Required(stage, pre) :
            Fields[ro] # None /\ Fields[ro].len > 0

\* --------------------------------------------------------------------- C6
\* C6: no loader getter returns a loader whose dataset is the absent handle.
C6_LoaderNeedsResolved ==
    AfterGetter => loader.dataset # None

\* --------------------------------------------------------------------- C7
\* C7: setup with a stage outside the enumerated set fails with a
\* precondition error and leaves every partition unchanged.
C7_UnknownStageRejected ==
    (AfterSetup /\ stage \notin EnumeratedStages) =>
        /\ outcome.exc = "PreconditionError"
        /\ Fields = pre

\* --------------------------------------------------------------------- C8
\* C8: after setup(stage) returns normally for a documented stage (train,
\* validation, test, predict) the data of that stage is loaded; in particular
\* after setup('test') the test partition is resolved.
C8_StageLoadsItsData ==
    (AfterSetup /\ outcome.exc = "none") =>
        /\ stage \in {"train", "validation", "test"} => Fields[stage] # None
        /\ stage = "predict" => (data_predict # None \/ data_test # None)

\* --------------------------------------------------------------------- C9
\* C9: when the test partition already holds a handle, setup('predict') does
\* not invoke the adapter and changes no partition.
C9_PredictReuse ==
    (AfterSetup /\ stage = "predict" /\ pre.test # None) =>
        /\ log = <<>>
        /\ Fields = pre
        /\ outcome.exc = "none"

C9_Witness ==
    /\ AfterSetup /\ stage = "predict"
    /\ pre.test # None /\ pre.test.len > 0
    /\ pre.predict = None

\* -------------------------------------------------------------------- C10
\* C10: when a setup call fails, every partition resolved before the call or
\* earlier in the call still holds the same handle.
C10_NoRollback ==
    (AfterSetup /\ outcome.exc # "none") =>
        /\ \A ro \in Roles : pre[ro] # None => Fields[ro] = pre[ro]
        /\ \A i \in 1..(Len(log) - 1) :
               /\ Fields[log[i].role] # None
               /\ Fields[log[i].role].len = log[i].res
               /\ Fields[log[i].role].src = log[i].src

\* The same statement for the three roles whose guard tests their own field.
C10_NoRollbackTrainValTest ==
    (AfterSetup /\ outcome.exc # "none") =>
        /\ \A ro \in Roles \ {"predict"} :
               pre[ro] # None => Fields[ro] = pre[ro]
        /\ \A i \in 1..(Len(log) - 1) :
               /\ Fields[log[i].role] # None
               /\ Fields[log[i].role].len = log[i].res
               /\ Fields[log[i].role].src = log[i].src

\* -------------------------------------------------------------------- C11
\* C11: the loader returned for the train role has shuffle = true, those for
\* the validation and test roles have shuffle = false, and batch_size,
\* num_workers and pin_memory of every loader are the constructor's values.
C11_ShufflePolicy ==
    AfterGetter =>
        /\ loader.shuffle = (op = "train_dataloader")
        /\ loader.batch_size = hparams.batch_size
        /\ loader.num_workers = hparams.num_workers
        /\ loader.pin_memory = hparams.pin_memory

C11_Witness ==
    /\ AfterGetter /\ op = "train_dataloader"
    /\ loader.shuffle /\ loader.dataset = data_train
    /\ loader.batch_size = MaxBatch /\ loader.pin_memory

\* -------------------------------------------------------------------- C16
\* The k-th adapter invocation of the last setup call failed: the adapter
\* raised, or the handle was empty.
AdapterRaised(k) == log[k].res = AdapterRaises
Failed(k) == log[k].res = AdapterRaises \/ log[k].res = 0

ResolutionOrder == <<"train", "validation", "test">>

\* The partitions of that order which held no handle in f.
Unresolved(f) ==
    SelectSeq(ResolutionOrder, LAMBDA ro : f[ro] = None)

\* The roles of the adapter invocations of the last setup call, in order.
LogRoles == [k \in 1..Len(log) |-> log[k].role]

\* C17: setup(None) and setup('fit') invoke the adapter for the unresolved
\* partitions in the order train, validation, test; the first failure ends
\* the call, so no partition later in the order is attempted in that call.
C17_OrderAndFailFast ==
    (AfterSetup /\ stage \in {NoneStage, "fit"}) =>
        /\ Len(log) <= Len(Unresolved(pre))
        /\ LogRoles = SubSeq(Unresolved(pre), 1, Len(log))
        /\ \A k \in 1..(Len(log) - 1) : ~Failed(k)
        /\ Len(log) < Len(Unresolved(pre)) =>
               (Len(log) >= 1 /\ Failed(Len(log)))
        /\ (Len(log) >= 1 /\ Failed(Len(log))) =>
               (outcome.exc # "none" /\ outcome.role = log[Len(log)].role)

C17_Witness ==
    /\ AfterSetup /\ stage = "fit" /\ FreshStart
    /\ Len(log) = 2 /\ log[2].res = 0
    /\ data_test = None

\* -------------------------------------------------------------------- C18
\* C18: the test source reference is opened at most once over any sequence
\* of setup calls, whether for the test or for the predict partition.
\* (Fields are never cleared, so the test source was opened before a call
\* exactly when some field then holds a handle opened from it.)
C18_TestSourceOpenedOnce ==
    AfterSetup =>
        LET opened == {k \in 1..Len(log) :
                           log[k].src = ds_test /\ ~AdapterRaised(k)}
        IN  opened # {} =>
                /\ Cardinality(opened) = 1
                /\ \A ro \in Roles : pre[ro].src # ds_test

\* -------------------------------------------------------------------- C19
\* The train, validation and test partitions the spec's stage table gives
\* for one stage.
Mapped(st) == Required(st, pre) \ {"predict"}

\* C19: when the adapter has always returned non-empty handles, the set of
\* resolved partitions among train, validation and test is the union of the
\* stage mapping over the set of stages requested so far, whatever the order
\* and repetition of the calls.
C19_OrderIndependence ==
    clean =>
        Held(Fields) \ {"predict"} = UNION {Mapped(st) : st \in requested}

C19_Witness ==
    /\ clean /\ ncalls = 3
    /\ requested = {"train", "validation"}
    /\ stage = "train" /\ pre.train = None
    /\ Held(Fields) = {"train", "validation", "test"}

\* -------------------------------------------------------------------- C20
\* C20: whenever data_test holds a handle, data_val holds a handle too.
C20_ValidationBeforeTest ==
    data_test # None => data_val # None

C20_Witness ==
    /\ AfterSetup /\ stage = "validation"
    /\ pre.test = None /\ data_test # None /\ data_val # None

\* -------------------------------------------------------------------- C12
\* An iteration has delivered its last batch.
IterationComplete == it.active /\ Len(it.out) = Len(it.batches)

\* The number of times index i occurs in the sequence q.
Occurrences(q, i) == Cardinality({k \in 1..Len(q) : q[k] = i})

\* C12: over a partition of N >= 1 samples with batch_size B >= 1, one full
\* iteration yields ceil(N/B) batches, every batch but the last of B samples,
\* the last of N - B*floor(N/B) samples (B when N is a multiple of B), and
\* every sample is delivered exactly once.
C12_LoaderShape ==
    IterationComplete =>
        LET N == it.loader.dataset.len
            B == hparams.batch_size
            nb == Len(it.out)
            rest == N - B * (N \div B)
        IN  /\ nb = (N + B - 1) \div B
            /\ \A k \in 1..(nb - 1) : Len(it.out[k]) = B
            /\ Len(it.out[nb]) = (IF rest = 0 THEN B ELSE rest)
            /\ Len(Flatten(it.out)) = N
            /\ \A i \in 0..(N - 1) : Occurrences(Flatten(it.out), i) = 1

C12_Witness ==
    /\ IterationComplete
    /\ it.loader.dataset = data_train /\ it.loader.dataset.len = 3
    /\ hparams.batch_size = 2
    /\ Len(it.out) = 2 /\ Len(it.out[1]) = 2 /\ Len(it.out[2]) = 1

\* -------------------------------------------------------------------- C13
\* A step that draws random numbers when applied.
Stochastic(st) == st.name = "RandomRotation"

\* The number of steps of pipeline p that satisfy Test.
Count(p, Test(_)) == Len(SelectSeq(p, Test))

\* Pipeline p without its random-rotation step of bound 20 degrees.
WithoutRotation(p) ==
    SelectSeq(p, LAMBDA st : st # Step("RandomRotation", <<20>>))

\* C13: whatever input_size the module was constructed with, the validation,
\* test and predict pipelines are step for step the same and equal the train
\* pipeline with exactly the random rotation (20 degrees) removed; the train
\* pipeline has exactly one stochastic step; every pipeline resizes to
\* 256x256; and every stored handle was opened with its role's pipeline.
C13_Pipelines ==
    LET T == Steps(train_transform, input_size)
        V == Steps(val_transform, input_size)
        E == Steps(test_transform, input_size)
        IsResize256(st) == st = Step("Resize", <<256, 256>>)
        IsResize(st) == st.name = "Resize"
    IN  /\ V = E
        /\ V = WithoutRotation(T)
        /\ Len(T) = Len(V) + 1
        /\ Count(T, Stochastic) = 1
        /\ Count(V, Stochastic) = 0
        /\ \A p \in {T, V, E} :
               Count(p, IsResize256) = 1 /\ Count(p, IsResize) = 1
        /\ data_train # None => Steps(data_train.tf, input_size) = T
        /\ \A h \in {data_val, data_test, data_predict} :
               h # None => Steps(h.tf, input_size) = V

C13_Witness ==
    /\ input_size = DefaultInputSize
    /\ data_predict # None /\ data_predict.tf = test_transform
    /\ data_test = None

\* -------------------------------------------------------------------- C14
\* The iterator runs over the validation or the test partition.
OverValOrTest ==
    \/ (data_val # None /\ it.loader.dataset = data_val)
    \/ (data_test # None /\ it.loader.dataset = data_test)

\* C14: every full iteration of a validation or test loader delivers the
\* samples in insertion order 0..N-1, and so in the same order as the full
\* iteration before it over the same partition, be it of the same loader
\* restarted or of a loader from another getter call.
C14_DeterministicOrder ==
    (IterationComplete /\ OverValOrTest) =>
        /\ Flatten(it.out) = InsertionOrder(it.loader.dataset.len)
        /\ prev.ds = it.loader.dataset.id => prev.order = Flatten(it.out)

C14_Witness ==
    /\ IterationComplete /\ OverValOrTest
    /\ it.loader.dataset.len = MaxN
    /\ it.loader.num_workers = 2
    /\ prev.ds = it.loader.dataset.id

\* -------------------------------------------------------------------- C15
\* The set of indices read so far by worker w.
ReadSet(w) == {it.reads[w][k] : k \in 1..Len(it.reads[w])}

\* C15: with W >= 1 workers and under every interleaving, the workers read
\* pairwise disjoint sets of indices, no index is read twice, a full
\* iteration has read every index, and the partition the workers read is the
\* stored handle, unchanged.
C15_WorkersDisjoint ==
    (it.active /\ it.loader.num_workers >= 1) =>
        LET W == it.loader.num_workers
            N == it.loader.dataset.len
            all == UNION {ReadSet(w) : w \in 1..W}
        IN  /\ \A v, w \in 1..W : v # w => ReadSet(v) \cap ReadSet(w) = {}
            /\ \A w \in 1..W : Cardinality(ReadSet(w)) = Len(it.reads[w])
            /\ all \subseteq 0..(N - 1)
            /\ IterationComplete => all = 0..(N - 1)
            /\ it.loader.dataset \in {data_train, data_val, data_test}
            /\ it.loader.dataset.len = N /\ it.loader.dataset # None

C15_Witness ==
    /\ IterationComplete
    /\ it.loader.num_workers = 2
    /\ it.loader.dataset.len = 3 /\ it.loader.batch_size = 1
    /\ Len(it.reads[1]) = 2 /\ Len(it.reads[2]) = 1
====
